---- MODULE Spec2Model ----
(***************************************************************************)
(* A model of scroller.py: the marquee scroller classes ScrollerBase,      *)
(* Scroller, LeftScroller and RightScroller.                               *)
(*                                                                         *)
(* Strings are sequences of one-character strings.  The state is one       *)
(* constructed scroller object (its attributes), the position of the       *)
(* caller inside run()/repeat() and the locals of those two loops, plus    *)
(* history variables that record what the current operation has done so    *)
(* far (the callback invocations, the sleeps, the exception).              *)
(***************************************************************************)
EXTENDS Integers, Sequences, FiniteSets, TLC

\* ------------------------------------------------------------- bounds
MaxWidth == 4
NonPosWidth == 1
MaxLen == 2
MaxTimes == 2
MaxNegTimes == 1
MaxDepth == 2

Alphabet == <<"a", "b", "c", "d", "e">>
Widths == (0 - NonPosWidth)..MaxWidth
Texts == {SubSeq(Alphabet, 1, n) : n \in 0..MaxLen}
Fillers == {<<".">>, <<"b">>}
TimesArgs == (0 - MaxNegTimes)..MaxTimes
Classes == {"LeftScroller", "RightScroller"}
Callbacks == {"print_line", "user"}

VARIABLES
    width, text, filler, include_first, include_last, \* constructor arguments
    cls,            \* the concrete class constructed
    callback,       \* "print_line": no callback given; "user": a caller's callback
    index,          \* self._index
    pc,             \* "idle", "while" (repeat, line 122) or "for" (run, line 114)
    ret,            \* who called run(): "top" or "repeat"
    it, stop,       \* the iterator of range(*self.range) in run()
    times,          \* repeat()'s local variable
    op,             \* history: the operation in progress or last finished
    idx0,           \* history: index when that operation was called
    times0,         \* history: the argument of that repeat()
    log,            \* history: the callback invocations of that operation
    sleeps,         \* history: the number of self._sleep calls of that operation
    raised,         \* history: that operation ended by the callback's exception
    raised0,        \* history: the operation before it ended by an exception
    stepped,        \* history: __next__ or __prev__ has run at least once
    pre,            \* history, for a top-level __prev__ call that directly
                    \* follows a top-level __next__ call: <<i>>, i the index
                    \* that __next__ was called at; <<>> otherwise
    streak          \* history: n >= 0 when the object's whole life so far is
                    \* n top-level __next__ calls, -1 otherwise

config == <<width, text, filler, include_first, include_last, cls, callback>>
frame == <<pc, ret, it, stop, times>>
history == <<op, idx0, times0, log, sleeps, raised, raised0, stepped, pre, streak>>
vars == <<config, index, frame, history>>

\* ------------------------------------------------------------ Python
\* int(b) for a bool b
int(b) == IF b THEN 1 ELSE 0

\* s * n for a string s: the empty string when n <= 0
RECURSIVE StrMul(_, _)
StrMul(s, n) == IF n <= 0 THEN <<>> ELSE s \o StrMul(s, n - 1)

\* how a slice bound b is placed in a string of length n
SliceBound(b, n) ==
    IF b < 0 THEN (IF b + n < 0 THEN 0 ELSE b + n)
    ELSE (IF b > n THEN n ELSE b)

\* s[a:b]
Slice(s, a, b) ==
    LET lo == SliceBound(a, Len(s))
        hi == SliceBound(b, Len(s))
    IN  IF lo < hi THEN SubSeq(s, lo + 1, hi) ELSE <<>>

\* s[a:]
SliceFrom(s, a) ==
    LET lo == SliceBound(a, Len(s))
    IN  IF lo < Len(s) THEN SubSeq(s, lo + 1, Len(s)) ELSE <<>>

\* s[:b]
SliceTo(s, b) ==
    LET hi == SliceBound(b, Len(s))
    IN  IF 0 < hi THEN SubSeq(s, 1, hi) ELSE <<>>

\* ------------------------------------------------------ ScrollerBase
max_index == Len(text) + width

\* get_begin_end with the sign of end lost
get_begin_end_EndSign(i) == <<i - width, i - Len(text)>>

get_begin_end(i) == <<i - width, 0 - (i - Len(text))>>

\* ---------------------------------------------------------- Scroller
\* the value __init__ and start() give self._index
InitialIndex == int(~include_first) - 1

\* range with include_last left out of the upper bound
range_IgnoreIncludeLast == <<int(~include_first), max_index>>

\* the property Scroller.range
range == <<int(~include_first), max_index + int(include_last)>>

\* ----------------------------------------------------- get_text
\* LeftScroller.get_text without the end == 0 cases: text[:-0] is empty
LeftScroller_get_text_NoEndZero(begin, end) ==
    IF begin < 0 /\ end < 0
    THEN StrMul(filler, 0 - begin) \o text \o StrMul(filler, 0 - end)
    ELSE IF begin < 0
    THEN StrMul(filler, 0 - begin) \o SliceTo(text, 0 - end)
    ELSE IF end < 0
    THEN SliceFrom(text, begin) \o StrMul(filler, 0 - end)
    ELSE Slice(text, begin, 0 - end)

LeftScroller_get_text(begin, end) ==
    IF begin < 0 /\ end < 0
    THEN StrMul(filler, 0 - begin) \o text \o StrMul(filler, 0 - end)
    ELSE IF begin < 0
    THEN StrMul(filler, 0 - begin) \o (IF end = 0 THEN text ELSE SliceTo(text, 0 - end))
    ELSE IF end < 0
    THEN SliceFrom(text, begin) \o StrMul(filler, 0 - end)
    ELSE (IF end = 0 THEN SliceFrom(text, begin) ELSE Slice(text, begin, 0 - end))

\* RightScroller.get_text taking the first characters of the text, not the
\* last, while the text enters (text[:index] for text[-index:])
RightScroller_get_text_Head(begin0, end0, i) ==
    LET begin == get_begin_end(i)[1]
        end == get_begin_end(i)[2]
    IN  IF begin < 0 /\ end < 0
        THEN StrMul(filler, 0 - end) \o text \o StrMul(filler, 0 - begin)
        ELSE IF begin < 0
        THEN (IF i = 0 THEN <<>> ELSE SliceTo(text, i)) \o StrMul(filler, 0 - begin)
        ELSE IF end < 0
        THEN StrMul(filler, 0 - end) \o (IF begin = 0 THEN text ELSE SliceTo(text, 0 - begin))
        ELSE (IF begin = 0 THEN SliceFrom(text, end) ELSE Slice(text, end, 0 - begin))

\* RightScroller.get_text without the index == 0 case: text[-0:] is the text
RightScroller_get_text_NoIndexZero(begin0, end0, i) ==
    LET begin == get_begin_end(i)[1]
        end == get_begin_end(i)[2]
    IN  IF begin < 0 /\ end < 0
        THEN StrMul(filler, 0 - end) \o text \o StrMul(filler, 0 - begin)
        ELSE IF begin < 0
        THEN SliceFrom(text, 0 - i) \o StrMul(filler, 0 - begin)
        ELSE IF end < 0
        THEN StrMul(filler, 0 - end) \o (IF begin = 0 THEN text ELSE SliceTo(text, 0 - begin))
        ELSE (IF begin = 0 THEN SliceFrom(text, end) ELSE Slice(text, end, 0 - begin))

\* RightScroller.get_text padding as LeftScroller does when the text lies
\* inside the window
RightScroller_get_text_PadAsLeft(begin0, end0, i) ==
    LET begin == get_begin_end(i)[1]
        end == get_begin_end(i)[2]
    IN  IF begin < 0 /\ end < 0
        THEN StrMul(filler, 0 - begin) \o text \o StrMul(filler, 0 - end)
        ELSE IF begin < 0
        THEN (IF i = 0 THEN <<>> ELSE SliceFrom(text, 0 - i)) \o StrMul(filler, 0 - begin)
        ELSE IF end < 0
        THEN StrMul(filler, 0 - end) \o (IF begin = 0 THEN text ELSE SliceTo(text, 0 - begin))
        ELSE (IF begin = 0 THEN SliceFrom(text, end) ELSE Slice(text, end, 0 - begin))

\* the arguments are overwritten from self._index (i) on line 180
RightScroller_get_text(begin0, end0, i) ==
    LET begin == get_begin_end(i)[1]
        end == get_begin_end(i)[2]
    IN  IF begin < 0 /\ end < 0
        THEN StrMul(filler, 0 - end) \o text \o StrMul(filler, 0 - begin)
        ELSE IF begin < 0
        THEN (IF i = 0 THEN <<>> ELSE SliceFrom(text, 0 - i)) \o StrMul(filler, 0 - begin)
        ELSE IF end < 0
        THEN StrMul(filler, 0 - end) \o (IF begin = 0 THEN text ELSE SliceTo(text, 0 - begin))
        ELSE (IF begin = 0 THEN SliceFrom(text, end) ELSE Slice(text, end, 0 - begin))

\* self.get_text(begin, end) while self._index = i
get_text(begin, end, i) ==
    IF cls = "LeftScroller"
    THEN LeftScroller_get_text(begin, end)
    ELSE RightScroller_get_text(begin, end, i)

\* --------------------------------------------------------- the sink
\* what Scroller.print_line(display_text, prefix, suffix, end) hands to print
\* while self._index = i: the line and print's end= argument
print_line(display_text, prefix, suffix, end, i) ==
    [line |-> <<"\r">> \o prefix \o display_text \o suffix,
     end  |-> IF i = max_index - int(~include_last) THEN end ELSE ""]

\* self.callback(display_text): the bound print_line with its default
\* arguments when no callback was given; a user callback prints nothing here
CallbackWrites(display_text, i) ==
    IF callback = "print_line"
    THEN print_line(display_text, <<".">>, <<".">>, "", i)
    ELSE [line |-> <<>>, end |-> ""]

\* a user callback may return or raise; print_line returns
Outcomes == IF callback = "print_line" THEN {TRUE} ELSE {TRUE, FALSE}

\* -------------------------------------------------------- the steps
\* __next__ wrapping one index early (>= for >)
NextIndex_WrapEarly(i) ==
    IF i + 1 >= max_index - int(~include_last)
    THEN int(~include_first)
    ELSE i + 1

\* __next__ wrapping to 0 whatever include_first is
NextIndex_WrapToZero(i) ==
    IF i + 1 > max_index - int(~include_last)
    THEN 0
    ELSE i + 1

\* __next__ testing against max_index whatever include_last is
NextIndex_IgnoreIncludeLast(i) ==
    IF i + 1 > max_index
    THEN int(~include_first)
    ELSE i + 1

\* lines 148-150: the index __next__ moves to from i
NextIndex(i) ==
    IF i + 1 > max_index - int(~include_last)
    THEN int(~include_first)
    ELSE i + 1

\* __prev__ wrapping to max_index whatever include_last is
PrevIndex_IgnoreIncludeLast(i) ==
    IF i - 1 < int(~include_first)
    THEN max_index
    ELSE i - 1

\* __prev__ still adding 1 where it does not wrap
PrevIndex_Increments(i) ==
    IF i - 1 < int(~include_first)
    THEN max_index - int(~include_last)
    ELSE i + 1

\* lines 160-162: the index __prev__ moves to from i
PrevIndex(i) ==
    IF i - 1 < int(~include_first)
    THEN max_index - int(~include_last)
    ELSE i - 1

\* the window taken before the index was moved (from i - 1)
Invocation_StaleWindow(i, ok, pass, pos, last) ==
    LET be == get_begin_end(i - 1)
        display_text == get_text(be[1], be[2], i)
        w == CallbackWrites(display_text, i)
    IN  [idx |-> i, begin |-> be[1], end |-> be[2], text |-> display_text,
         ok |-> ok, line |-> w.line, nl |-> w.end, pass |-> pass, pos |-> pos,
         last |-> last]

\* lines 151-153 (163-165): the callback invocation at index i; ok is
\* whether the callback returned; pass and pos place it in repeat and run,
\* last is whether no iteration of run's loop follows it
Invocation(i, ok, pass, pos, last) ==
    LET be == get_begin_end(i)
        display_text == get_text(be[1], be[2], i)
        w == CallbackWrites(display_text, i)
    IN  [idx |-> i, begin |-> be[1], end |-> be[2], text |-> display_text,
         ok |-> ok, line |-> w.line, nl |-> w.end, pass |-> pass, pos |-> pos,
         last |-> last]

\* __next__ / __prev__ sleeping whether or not the callback returned
Step_SleepAlways(j, ok, lg, sl, pass, pos, last) ==
    /\ index' = j
    /\ log' = Append(lg, Invocation(j, ok, pass, pos, last))
    /\ sleeps' = sl + 1
    /\ raised' = ~ok
    /\ stepped' = TRUE

\* the body of __next__ / __prev__ once the index j to move to is computed:
\* the callback is invoked, then, if it returned, the sleep
Step(j, ok, lg, sl, pass, pos, last) ==
    /\ index' = j
    /\ log' = Append(lg, Invocation(j, ok, pass, pos, last))
    /\ sleeps' = sl + int(ok)
    /\ raised' = ~ok
    /\ stepped' = TRUE

TypeOK ==
    /\ width \in Widths /\ text \in Texts /\ filler \in Fillers
    /\ include_first \in BOOLEAN /\ include_last \in BOOLEAN
    /\ cls \in Classes /\ callback \in Callbacks
    /\ index \in Int
    /\ pc \in {"idle", "while", "for"} /\ ret \in {"top", "repeat"}
    /\ it \in Int /\ stop \in Int /\ times \in Int
    /\ op \in {"new", "next", "prev", "start", "run", "repeat"}
    /\ idx0 \in Int /\ times0 \in Int /\ sleeps \in Nat
    /\ raised \in BOOLEAN /\ raised0 \in BOOLEAN /\ stepped \in BOOLEAN
    /\ pre \in {<<>>} \cup {<<i>> : i \in (0 - 2 - NonPosWidth)..(MaxLen + MaxWidth)}
    /\ streak \in Int

\* ------------------------------------------------------------- Init
\* the object after Scroller.__init__
Init ==
    /\ width \in Widths
    /\ text \in Texts
    /\ filler \in Fillers
    /\ include_first \in BOOLEAN
    /\ include_last \in BOOLEAN
    /\ cls \in Classes
    /\ callback \in Callbacks
    /\ index = InitialIndex
    /\ pc = "idle" /\ ret = "top" /\ it = 0 /\ stop = 0 /\ times = 0
    /\ op = "new" /\ idx0 = InitialIndex /\ times0 = 0
    /\ log = <<>> /\ sleeps = 0 /\ raised = FALSE /\ raised0 = FALSE
    /\ stepped = FALSE /\ pre = <<>> /\ streak = 0

\* the object after LeftScroller(10, "hi", wait, filler=' ', callback),
\* include_first and include_last left at their default True
InitHi ==
    /\ width = 10
    /\ text = <<"h", "i">>
    /\ filler = <<" ">>
    /\ include_first = TRUE
    /\ include_last = TRUE
    /\ cls = "LeftScroller"
    /\ callback \in Callbacks
    /\ index = InitialIndex
    /\ pc = "idle" /\ ret = "top" /\ it = 0 /\ stop = 0 /\ times = 0
    /\ op = "new" /\ idx0 = InitialIndex /\ times0 = 0
    /\ log = <<>> /\ sleeps = 0 /\ raised = FALSE /\ raised0 = FALSE
    /\ stepped = FALSE /\ pre = <<>> /\ streak = 0

\* ---------------------------------------------------------- actions
\* a top-level call of __next__
StepForward ==
    /\ pc = "idle"
    /\ \E ok \in Outcomes : Step(NextIndex(index), ok, <<>>, 0, 0, 0, TRUE)
    /\ op' = "next" /\ idx0' = index /\ times0' = 0 /\ raised0' = raised
    /\ pre' = <<>>
    /\ streak' = IF streak >= 0 /\ streak < MaxWidth + MaxLen + 2 THEN streak + 1 ELSE -1
    /\ UNCHANGED <<config, frame>>

\* a top-level call of __prev__
StepBackward ==
    /\ pc = "idle"
    /\ \E ok \in Outcomes : Step(PrevIndex(index), ok, <<>>, 0, 0, 0, TRUE)
    /\ op' = "prev" /\ idx0' = index /\ times0' = 0 /\ raised0' = raised
    /\ pre' = IF op = "next" THEN <<idx0>> ELSE <<>>
    /\ streak' = -1
    /\ UNCHANGED <<config, frame>>

\* start() without the reset of the index
Restart_NoReset ==
    /\ pc = "idle"
    /\ \E ok \in Outcomes : Step(NextIndex(index), ok, <<>>, 0, 0, 0, TRUE)
    /\ op' = "start" /\ idx0' = index /\ times0' = 0 /\ raised0' = raised
    /\ pre' = <<>>
    /\ streak' = -1
    /\ UNCHANGED <<config, frame>>

\* a call of start(): the index is reset, then __next__
Restart ==
    /\ pc = "idle"
    /\ \E ok \in Outcomes : Step(NextIndex(InitialIndex), ok, <<>>, 0, 0, 0, TRUE)
    /\ op' = "start" /\ idx0' = index /\ times0' = 0 /\ raised0' = raised
    /\ pre' = <<>>
    /\ streak' = -1
    /\ UNCHANGED <<config, frame>>

\* a top-level call of run(): the range is built from self.range
RunOnePass ==
    /\ pc = "idle"
    /\ pc' = "for" /\ ret' = "top" /\ it' = range[1] /\ stop' = range[2]
    /\ op' = "run" /\ idx0' = index /\ times0' = 0 /\ streak' = -1
    /\ log' = <<>> /\ sleeps' = 0 /\ raised' = FALSE /\ raised0' = raised
    /\ UNCHANGED stepped /\ pre' = <<>>
    /\ UNCHANGED <<config, index, times>>

\* one iteration of run()'s for loop: __next__; the callback's exception
\* leaves run() and, under repeat(), repeat() too
RunStep ==
    /\ pc = "for" /\ it < stop
    /\ \E ok \in Outcomes :
        /\ Step(NextIndex(index), ok, log, sleeps, times0 - times, it - range[1],
                it + 1 >= stop)
        /\ IF ok
           THEN /\ it' = it + 1
                /\ UNCHANGED <<pc, ret, stop, times>>
           ELSE /\ pc' = "idle" /\ ret' = "top" /\ it' = 0 /\ stop' = 0 /\ times' = 0
    /\ UNCHANGED <<config, op, idx0, times0, raised0, pre, streak>>

\* the range is exhausted: run() returns; under repeat(), times -= 1
RunReturn ==
    /\ pc = "for" /\ it >= stop
    /\ IF ret = "repeat"
       THEN /\ pc' = "while" /\ times' = times - 1
       ELSE /\ pc' = "idle" /\ times' = times
    /\ ret' = "top" /\ it' = 0 /\ stop' = 0
    /\ UNCHANGED <<config, index, history>>

\* a call of repeat(t)
Repeat ==
    /\ pc = "idle"
    /\ \E t \in TimesArgs : times' = t /\ times0' = t
    /\ pc' = "while"
    /\ op' = "repeat" /\ idx0' = index /\ streak' = -1
    /\ log' = <<>> /\ sleeps' = 0 /\ raised' = FALSE /\ raised0' = raised
    /\ UNCHANGED stepped /\ pre' = <<>>
    /\ UNCHANGED <<config, index, ret, it, stop>>

\* repeat() looping while times > 0
RepeatTest_WhilePositive ==
    /\ pc = "while"
    /\ times > 0 - MaxDepth
    /\ IF times > 0
       THEN /\ pc' = "for" /\ ret' = "repeat" /\ it' = range[1] /\ stop' = range[2]
            /\ times' = times
       ELSE /\ pc' = "idle" /\ UNCHANGED <<ret, it, stop, times>>
    /\ UNCHANGED <<config, index, history>>

\* repeat()'s while test: call run() or return
RepeatTest ==
    /\ pc = "while"
    /\ times > 0 - MaxDepth
    /\ IF times # 0
       THEN /\ pc' = "for" /\ ret' = "repeat" /\ it' = range[1] /\ stop' = range[2]
            /\ times' = times
       ELSE /\ pc' = "idle" /\ UNCHANGED <<ret, it, stop, times>>
    /\ UNCHANGED <<config, index, history>>

Next ==
    \/ StepForward
    \/ StepBackward
    \/ Restart
    \/ RunOnePass
    \/ RunStep
    \/ RunReturn
    \/ Repeat
    \/ RepeatTest

Spec == Init /\ [][Next]_vars

SpecHi == InitHi /\ [][Next]_vars

\* the loops of run() and repeat() are not left waiting: a call in progress
\* takes its next step (the thread is not stopped from outside)
FairSpec == Spec /\ WF_vars(RunStep) /\ WF_vars(RunReturn) /\ WF_vars(RepeatTest)

\* ------------------------------------------------ the claims' terms
\* minIndex, maxIndex and the length of a pass, as the specification defines them
MinIndex == IF include_first THEN 0 ELSE 1
MaxIndex == (Len(text) + width) - (IF include_last THEN 0 ELSE 1)
PassLen == MaxIndex - MinIndex + 1

\* index + 1 with wrap, index - 1 with wrap
Following(i) == IF i + 1 > MaxIndex THEN MinIndex ELSE i + 1
Preceding(i) == IF i - 1 < MinIndex THEN MaxIndex ELSE i - 1

Done == pc = "idle" /\ ~raised

\* ----------------------------------------------------------- claims
\* C1: with width > 0 and a one-character filler, every display string the
\* callback receives has length exactly width, in both classes.
C1_FrameHasWidth ==
    (width > 0 /\ Len(filler) = 1) =>
        \A k \in 1..Len(log) : Len(log[k].text) = width

C1_Witness ==
    /\ width > 1 /\ Len(text) > 0 /\ Len(filler) = 1
    /\ cls = "RightScroller" /\ op = "repeat" /\ times0 = 2 /\ Done
    /\ Len(log) = 2 * PassLen
    /\ \E k \in 1..Len(log) : log[k].text = text \o StrMul(filler, width - Len(text))

\* C2: a fresh object has index = minIndex - 1, and the k-th of
\* maxIndex - minIndex + 1 consecutive stepForward calls on it renders index
\* minIndex + k - 1: each index of the range once, in increasing order.
C2_ForwardSweep ==
    /\ op = "new" => index = MinIndex - 1
    /\ (width > 0 /\ streak >= 1 /\ streak <= PassLen) =>
           /\ Len(log) = 1
           /\ log[1].idx = MinIndex + streak - 1
           /\ index = log[1].idx

C2_Witness == width > 0 /\ PassLen >= 4 /\ streak = PassLen /\ index = MaxIndex

\* C3 as stated: once a step has run, minIndex <= index <= maxIndex in every
\* configuration with width > 0.
C3_IndexInRange ==
    (width > 0 /\ stepped) => (MinIndex <= index /\ index <= MaxIndex)

\* C3 amended: once a step has run, minIndex <= index <= maxIndex in every
\* configuration with width > 0 whose range is not empty (minIndex <= maxIndex).
C3_IndexInNonEmptyRange ==
    (width > 0 /\ stepped /\ MinIndex <= MaxIndex) =>
        (MinIndex <= index /\ index <= MaxIndex)

C3_Witness ==
    /\ width = 2 /\ text = <<>> /\ ~include_first /\ ~include_last
    /\ stepped /\ op = "prev" /\ idx0 = MinIndex /\ index = MaxIndex

\* C4: stepForward at index = maxIndex moves to minIndex, and the callback
\* invocations of repeat(n), n >= 1, called at the initial index are
\* minIndex..maxIndex n times over, pass after pass.
C4_RepeatSequence ==
    width > 0 =>
        /\ (op = "next" /\ idx0 = MaxIndex) => (log[1].idx = MinIndex /\ index = MinIndex)
        /\ (op = "repeat" /\ idx0 = MinIndex - 1 /\ times0 >= 1) =>
               IF PassLen > 0
               THEN /\ \A k \in 1..Len(log) :
                          /\ log[k].idx = MinIndex + ((k - 1) % PassLen)
                          /\ log[k].pass = (k - 1) \div PassLen
                    /\ Done => Len(log) = times0 * PassLen
               ELSE log = <<>>

C4_Witness ==
    /\ width > 0 /\ PassLen >= 3 /\ op = "repeat" /\ raised0 = FALSE
    /\ idx0 = MinIndex - 1 /\ times0 = 2 /\ Done /\ Len(log) = 2 * PassLen
    /\ log[PassLen].idx = MaxIndex /\ log[PassLen + 1].idx = MinIndex

\* C5: a run() that returns has called __next__ maxIndex - minIndex + 1 times
\* whatever the index was; called at the initial index it renders
\* minIndex..maxIndex in order and leaves index = maxIndex.
C5_RunOnePass ==
    (width > 0 /\ op = "run") =>
        /\ Len(log) <= PassLen
        /\ Done =>
             /\ Len(log) = PassLen
             /\ idx0 = MinIndex - 1 =>
                    /\ \A k \in 1..Len(log) : log[k].idx = MinIndex + k - 1
                    /\ index = MaxIndex

C5_Witness ==
    /\ width > 0 /\ op = "run" /\ Done /\ PassLen >= 3
    /\ idx0 \notin {MinIndex - 1, MaxIndex} /\ Len(log) = PassLen

\* C6 as stated: in every run(), from any state, a callback invocation with
\* index = maxIndex is the last step of its pass.
C6_MaxIndexEndsPass ==
    (width > 0 /\ op \in {"run", "repeat"}) =>
        \A k \in 1..Len(log) : log[k].idx = MaxIndex => log[k].last

\* C6 amended: in every run() called when index is minIndex - 1 or maxIndex,
\* a callback invocation with index = maxIndex is the last step of its pass.
C6_MaxIndexEndsAlignedPass ==
    (width > 0 /\ op \in {"run", "repeat"} /\ idx0 \in {MinIndex - 1, MaxIndex}) =>
        \A k \in 1..Len(log) : log[k].idx = MaxIndex => log[k].last

C6_Witness ==
    /\ width > 0 /\ op = "run" /\ idx0 = MaxIndex /\ stepped /\ PassLen >= 3 /\ Done
    /\ log[Len(log)].idx = MaxIndex /\ log[Len(log)].last

\* C7: the default sink ends the line with a newline exactly on the steps
\* whose index is maxIndex, and writes "\r"-prefixed text without a newline
\* on every other step.
C7_NewlineAtMaxIndex ==
    (width > 0 /\ callback = "print_line") =>
        \A k \in 1..Len(log) :
            /\ log[k].line[1] = "\r"
            /\ (log[k].nl = "\n") <=> (log[k].idx = MaxIndex)

\* C8: repeat(times) with times >= 0 returns, after exactly
\* times * (maxIndex - minIndex + 1) steps; with times < 0 it never returns
\* (only the callback's exception ends it).
C8_RepeatSteps ==
    op = "repeat" =>
        /\ (width > 0 /\ times0 >= 0) =>
               /\ Len(log) <= times0 * PassLen
               /\ Done => Len(log) = times0 * PassLen
        /\ times0 < 0 =>
               /\ pc = "idle" => raised
               /\ pc # "idle" => (times < 0 /\ times <= times0)
               /\ (width > 0 /\ pc = "while") => Len(log) = (times0 - times) * PassLen

C8_RepeatTerminates ==
    /\ []C8_RepeatSteps
    /\ (op = "repeat" /\ times0 >= 0) ~> (pc = "idle")

C8_Witness ==
    /\ width > 0 /\ op = "repeat" /\ times0 = 2 /\ Done /\ PassLen >= 2
    /\ Len(log) = 2 * PassLen

\* C9: no object with width <= 0 exists, so no step is rendered for one.
C9_NoStepWithoutWidth == width <= 0 => log = <<>>

\* what C10 says of an exception, apart from the index that follows it
C10_Raise ==
    /\ raised =>
           /\ pc = "idle"
           /\ log # <<>> /\ ~log[Len(log)].ok
           /\ index = log[Len(log)].idx
           /\ LET before == IF Len(log) > 1 THEN log[Len(log) - 1].idx
                            ELSE IF op = "start" THEN MinIndex - 1 ELSE idx0
              IN  index = IF op = "prev" THEN Preceding(before) ELSE Following(before)
    /\ sleeps = Cardinality({k \in 1..Len(log) : log[k].ok})
    /\ (op \in {"run", "repeat"} /\ raised /\ width > 0) =>
           \A k \in 1..(Len(log) - 1) : log[k].ok

\* C10 as stated: the exception reaches the caller, the index stays advanced,
\* the step does not sleep, and the next stepForward renders index + 1 (with
\* wrap), never the failed index again.
C10_NextAfterRaise ==
    (width > 0 /\ MinIndex <= MaxIndex) =>
        /\ C10_Raise
        /\ (op = "next" /\ raised0) =>
               (log[1].idx = Following(idx0) /\ log[1].idx # idx0)

\* C10 amended: ... and the next stepForward renders index + 1 (with wrap),
\* which is another index than the failed one when the range
\* minIndex..maxIndex holds more than one index.
C10_NextAfterRaiseInRange ==
    (width > 0 /\ MinIndex <= MaxIndex) =>
        /\ C10_Raise
        /\ (op = "next" /\ raised0) =>
               /\ log[1].idx = Following(idx0)
               /\ PassLen > 1 => log[1].idx # idx0

C10_Witness ==
    /\ width > 0 /\ PassLen >= 3 /\ op = "next" /\ raised0 /\ raised
    /\ idx0 = MaxIndex /\ index = MinIndex /\ sleeps = 0

\* ------------------------------------------- the reference rendering
\* the frame as a window of width columns onto the text padded with filler
\* on both sides: column p (from 0) of LeftScroller's frame at index i shows
\* text[i - width + p], of RightScroller's text[len(text) - i + p]
WindowAt(first) ==
    [p \in 1..width |->
        LET t == first + (p - 1)
        IN  IF 0 <= t /\ t < Len(text) THEN text[t + 1] ELSE filler[1]]

WindowLeft(i) == WindowAt(i - width)
WindowRight(i) == WindowAt(Len(text) - i)
Window(i) == IF cls = "LeftScroller" THEN WindowLeft(i) ELSE WindowRight(i)

\* C11: stepForward at an index i with minIndex < i < maxIndex, directly
\* followed by stepBackward, leaves index = i, and that stepBackward hands
\* the callback the frame for index i.
C11_ForwardThenBackward ==
    (width > 0 /\ op = "prev" /\ pre # <<>>) =>
        \/ ~(MinIndex < pre[1] /\ pre[1] < MaxIndex)
        \/  /\ index = pre[1]
            /\ Len(log) = 1 /\ log[1].idx = pre[1]
            /\ log[1].text = Window(pre[1])

C11_Witness ==
    /\ width > 1 /\ text # <<>> /\ op = "prev" /\ pre # <<>>
    /\ MinIndex < pre[1] /\ pre[1] < MaxIndex
    /\ index = pre[1] /\ idx0 = pre[1] + 1
    /\ \E p \in 1..width : log[1].text[p] # filler[1]

\* C12: stepBackward moves to index - 1, or to maxIndex when that is below
\* minIndex (so from minIndex and from a new object's index it lands on
\* maxIndex), and renders the frame for the index it moved to.
C12_StepBackward ==
    op = "prev" =>
        /\ index = IF idx0 - 1 < MinIndex THEN MaxIndex ELSE idx0 - 1
        /\ idx0 \in {MinIndex, MinIndex - 1} => index = MaxIndex
        /\ Len(log) = 1 /\ log[1].idx = index
        /\ (width > 0 /\ Len(filler) = 1) => log[1].text = Window(index)

C12_Witness ==
    /\ width > 0 /\ op = "prev"
    /\ idx0 = MinIndex - 1 /\ index = MaxIndex /\ PassLen >= 3

\* C13: restart, in any state, leaves index = minIndex and invokes the
\* callback exactly once, with the frame for minIndex.
C13_Restart ==
    op = "start" =>
        /\ index = MinIndex
        /\ Len(log) = 1 /\ log[1].idx = MinIndex
        /\ (width > 0 /\ Len(filler) = 1) => log[1].text = Window(MinIndex)

C13_Witness ==
    /\ width > 0 /\ op = "start" /\ PassLen >= 3
    /\ idx0 \notin {MinIndex - 1, MinIndex, MaxIndex} /\ index = MinIndex

\* C14 as stated: with include_first false no operation renders index 0.
C14_NeverIndexZero ==
    (width > 0 /\ ~include_first) => \A k \in 1..Len(log) : log[k].idx # 0

\* C14 amended: with include_first false and a range that is not empty
\* (minIndex <= maxIndex) no operation renders index 0.
C14_NeverIndexZeroInRange ==
    (width > 0 /\ ~include_first /\ MinIndex <= MaxIndex) =>
        \A k \in 1..Len(log) : log[k].idx # 0

C14_Witness ==
    /\ width > 0 /\ ~include_first /\ PassLen >= 2
    /\ op = "repeat" /\ idx0 = MaxIndex /\ stepped /\ times0 = 2 /\ Done
    /\ log[1].idx = 1 /\ log[PassLen + 1].idx = 1

\* whether ch is a character of the string s
Contains(s, ch) == \E p \in 1..Len(s) : s[p] = ch

\* the first operation of a new object, when it steps forward
FirstForward ==
    /\ op \in {"next", "run", "repeat", "start"}
    /\ idx0 = MinIndex - 1 /\ pre = <<>> /\ ~raised0
    /\ log # <<>>

\* C15 as stated: with include_first false and a text that is not empty, the
\* first frame of a new object, at index 1, contains text[0], in both classes.
C15_FirstFrameShowsFirstChar ==
    (width > 0 /\ ~include_first /\ text # <<>> /\ FirstForward) =>
        /\ log[1].idx = 1
        /\ Contains(log[1].text, text[1])

\* C15 amended: ... the first frame of a new object, at index 1, contains
\* text[0] for LeftScroller and the last character of the text for
\* RightScroller (which is text[0] only when the text has one character).
C15_FirstFrameShowsEnteringChar ==
    (width > 0 /\ ~include_first /\ text # <<>> /\ FirstForward) =>
        /\ log[1].idx = 1
        /\ cls = "LeftScroller" => Contains(log[1].text, text[1])
        /\ cls = "RightScroller" => Contains(log[1].text, text[Len(text)])

C15_Witness ==
    /\ width > 1 /\ ~include_first /\ Len(text) = 2 /\ FirstForward
    /\ cls = "RightScroller" /\ op = "next" /\ streak = 1
    /\ ~Contains(text, filler[1])
    /\ log[1].text[1] = text[2] /\ ~Contains(log[1].text, text[1])

\* n spaces
Spaces(n) == [p \in 1..n |-> " "]

\* the frames C16 lists, by index
HiFrame(i) ==
    IF i = 0 THEN Spaces(10)
    ELSE IF i = 1 THEN Spaces(9) \o <<"h">>
    ELSE IF i <= 10 THEN Spaces(10 - i) \o <<"h", "i">> \o Spaces(i - 2)
    ELSE IF i = 11 THEN <<"i">> \o Spaces(9)
    ELSE Spaces(10)

AllFiller(s) == Len(s) = width /\ \A p \in 1..Len(s) : s[p] = filler[1]

\* C17: in both classes, for a text that is not empty and holds no filler
\* character, a rendered frame is all filler exactly at index 0 and at index
\* len(text) + width; every index between shows a character of the text.
C17_AllFillerOnlyAtEnds ==
    (width > 0 /\ Len(filler) = 1 /\ text # <<>> /\ ~Contains(text, filler[1])) =>
        \A k \in 1..Len(log) :
            /\ AllFiller(log[k].text) <=> log[k].idx \in {0, Len(text) + width}
            /\ ~AllFiller(log[k].text) => \E p \in 1..Len(text) : Contains(log[k].text, text[p])

C17_Witness ==
    /\ width > 1 /\ Len(text) = 2 /\ ~Contains(text, filler[1])
    /\ include_first /\ include_last /\ cls = "RightScroller"
    /\ op = "run" /\ idx0 = MinIndex - 1 /\ Done
    /\ AllFiller(log[1].text) /\ AllFiller(log[Len(log)].text)
    /\ \A k \in 2..(Len(log) - 1) : ~AllFiller(log[k].text)

\* the table of RightScroller.get_text driven by its arguments alone: the
\* index it reads is the one the arguments stand for, begin + width
RightFromArguments(begin, end) ==
    LET i == begin + width
    IN  IF begin < 0 /\ end < 0
        THEN StrMul(filler, 0 - end) \o text \o StrMul(filler, 0 - begin)
        ELSE IF begin < 0
        THEN (IF i = 0 THEN <<>> ELSE SliceFrom(text, 0 - i)) \o StrMul(filler, 0 - begin)
        ELSE IF end < 0
        THEN StrMul(filler, 0 - end) \o (IF begin = 0 THEN text ELSE SliceTo(text, 0 - begin))
        ELSE (IF begin = 0 THEN SliceFrom(text, end) ELSE Slice(text, end, 0 - begin))

\* C18: every get_text call of every operation gets (begin, end) =
\* (index - width, len(text) - index) for the index of that step, so
\* RightScroller, which recomputes them from the index, returns what its
\* table returns on the arguments.
C18_ArgumentsMatchIndex ==
    \A k \in 1..Len(log) :
        /\ log[k].begin = log[k].idx - width
        /\ log[k].end = Len(text) - log[k].idx
        /\ cls = "RightScroller" =>
               log[k].text = RightFromArguments(log[k].begin, log[k].end)

C18_Witness ==
    /\ cls = "RightScroller" /\ width > 1 /\ Len(text) = 2
    /\ op = "prev" /\ idx0 = 2 /\ index = 1
    /\ log[1].begin = 1 - width /\ log[1].end = 1
    /\ log[1].text = <<text[2]>> \o StrMul(filler, width - 1)

\* C19: every frame is the width-wide window onto the padded text: for
\* every index i in 0..len(text)+width, LeftScroller's frame shows
\* text[i - width + p] in column p, RightScroller's text[len(text) - i + p],
\* and filler where that is outside the text.
C19_FrameIsWindow ==
    (width > 0 /\ Len(filler) = 1) =>
        /\ \A i \in 0..(Len(text) + width) :
               /\ LeftScroller_get_text(get_begin_end(i)[1], get_begin_end(i)[2])
                      = WindowLeft(i)
               /\ RightScroller_get_text(get_begin_end(i)[1], get_begin_end(i)[2], i)
                      = WindowRight(i)
        /\ \A k \in 1..Len(log) : log[k].text = Window(log[k].idx)

C19_Witness ==
    /\ width = 2 /\ Len(text) = 2 /\ Len(filler) = 1 /\ ~Contains(text, filler[1])
    /\ cls = "LeftScroller" /\ op = "run" /\ Done /\ Len(log) = PassLen
    /\ \E k \in 1..Len(log) :
           /\ log[k].idx = 3 /\ log[k].text = <<text[2], filler[1]>>
           /\ log[k].text = WindowLeft(3)

====
